---- MODULE Spec2Model ----
(***************************************************************************)
(* Model of Requetes/requetes_P7_2.py: a one-shot batch job that reads the *)
(* "listings" collection of a MongoDB database, cleans it with polars and  *)
(* writes five aggregate CSV reports into OUTDIR.  The older variant       *)
(* "Requetes/requetes P7-2.py" is the same pipeline without the            *)
(* NETTOYER_OUTPUTS flag (and without the type_logement translation); it   *)
(* is the behaviour of this model with NETTOYER_OUTPUTS = FALSE.           *)
(*                                                                         *)
(* Conventions.  A nullable value is a set with at most one element: {} is *)
(* null, {v} is the value v.  A string that the program inspects or parses *)
(* is a tuple of one-character strings; a string that is only compared is  *)
(* a TLA+ string.  A float that the program computes is kept as the exact  *)
(* fraction <<numerator, denominator>> in lowest terms.                    *)
(***************************************************************************)
EXTENDS Integers, Sequences, FiniteSets, TLC

\* ------------------------------------------------------------------------
\* Bounds of the model
\* ------------------------------------------------------------------------
MaxDocs == 3          \* longest collection of the data specification
MaxCtlDocs == 2       \* longest collection of the pipeline specification
MaxTopN == 2          \* TOP_N ranges over 1..MaxTopN
MaxUnlinkFailures == 1 \* f.unlink() raising, per call of nettoyer_outputs

\* ------------------------------------------------------------------------
\* Small arithmetic: exact fractions stand for polars' Float64 values
\* ------------------------------------------------------------------------
Abs(n) == IF n < 0 THEN -n ELSE n

RECURSIVE Gcd(_, _)
Gcd(a, b) == IF b = 0 THEN a ELSE Gcd(b, a % b)

\* n / d with d > 0, in lowest terms
Rat(n, d) ==
    LET g == Gcd(Abs(n), d) IN <<n \div g, d \div g>>

RatAdd(a, b) == Rat(a[1] * b[2] + b[1] * a[2], a[2] * b[2])

RatLess(a, b) == a[1] * b[2] < b[1] * a[2]

RatLeq(a, b) == a[1] * b[2] <= b[1] * a[2]

Min(a, b) == IF a <= b THEN a ELSE b

\* ------------------------------------------------------------------------
\* Strings as tuples of characters
\* ------------------------------------------------------------------------
Digits == <<"0", "1", "2", "3", "4", "5", "6", "7", "8", "9">>

IsDigit(c) == \E i \in 1..10 : Digits[i] = c

DigitVal(c) == (CHOOSE i \in 1..10 : Digits[i] = c) - 1

AllDigits(cs) == \A i \in 1..Len(cs) : IsDigit(cs[i])

RECURSIVE DecimalValue(_)
DecimalValue(cs) ==
    IF Len(cs) = 0 THEN 0
    ELSE 10 * DecimalValue(SubSeq(cs, 1, Len(cs) - 1)) + DigitVal(cs[Len(cs)])

\* ------------------------------------------------------------------------
\* Raw BSON values of a fetched document and polars' non-strict casts
\* ------------------------------------------------------------------------
RawNull == [t |-> "null"]
RawInt(i) == [t |-> "int", i |-> i]
RawText(cs) == [t |-> "text", cs |-> cs]     \* a string the program parses
RawStr(s) == [t |-> "str", s |-> s]          \* a string the program compares

\* pl.col(..).cast(pl.Int64, strict=False): an integer stays, a string of
\* decimal digits (with an optional sign) is parsed, anything else is null.
CastInt64(x) ==
    IF x.t = "int" THEN {x.i}
    ELSE IF x.t = "text" /\ Len(x.cs) > 0 /\ AllDigits(x.cs) THEN {DecimalValue(x.cs)}
    ELSE IF x.t = "text" /\ Len(x.cs) > 1 /\ x.cs[1] = "-" /\ AllDigits(Tail(x.cs))
         THEN {0 - DecimalValue(Tail(x.cs))}
    ELSE {}

\* pl.col(..).cast(pl.Utf8, strict=False) of a string column
CastUtf8Text(x) == IF x.t = "text" THEN {x.cs} ELSE {}

CastUtf8Str(x) == IF x.t = "str" THEN {x.s} ELSE {}

DaysIn(y, m) ==
    IF m \in {4, 6, 9, 11} THEN 30
    ELSE IF m = 2 THEN (IF y % 4 = 0 /\ (y % 100 # 0 \/ y % 400 = 0) THEN 29 ELSE 28)
    ELSE 31

\* .cast(pl.Utf8, strict=False).str.strptime(pl.Date, strict=False) on text
\* of the form YYYY-MM-DD: the date <<y, m, d>>, or null when the text is
\* not a calendar date.
ParseDate(x) ==
    IF x.t # "text" THEN {}
    ELSE LET cs == x.cs IN
         IF /\ Len(cs) = 10
            /\ cs[5] = "-" /\ cs[8] = "-"
            /\ AllDigits(SubSeq(cs, 1, 4))
            /\ AllDigits(SubSeq(cs, 6, 7))
            /\ AllDigits(SubSeq(cs, 9, 10))
         THEN LET y == DecimalValue(SubSeq(cs, 1, 4))
                  m == DecimalValue(SubSeq(cs, 6, 7))
                  d == DecimalValue(SubSeq(cs, 9, 10))
              IN IF m \in 1..12 /\ d \in 1..DaysIn(y, m) THEN {<<y, m, d>>} ELSE {}
         ELSE {}

\* pl.col("last_scraped").dt.strftime("%Y-%m"): the text YYYY-MM of a date
TwoDigits(n) == <<Digits[(n \div 10) + 1], Digits[(n % 10) + 1]>>

StrftimeYm(date) ==
    <<Digits[((date[1] \div 1000) % 10) + 1], Digits[((date[1] \div 100) % 10) + 1],
      Digits[((date[1] \div 10) % 10) + 1], Digits[(date[1] % 10) + 1], "-">>
    \o TwoDigits(date[2])

\* ------------------------------------------------------------------------
\* Program constants and the cleaning / enrichment steps of main()
\* ------------------------------------------------------------------------
Range(f) == {f[i] : i \in DOMAIN f}

Val(opt) == CHOOSE v \in opt : TRUE

\* Keys of PROJECTION other than _id
PROJECTION ==
    {"last_scraped", "room_type", "availability_30", "number_of_reviews",
     "host_is_superhost", "neighbourhood_cleansed"}

\* pl.from_dicts(docs): one column per key met in the documents, a missing
\* key of a document is null in its row.  (The schema is inferred on the
\* first 100 documents; the collections of this model are shorter.)
from_dicts(ds) ==
    LET cols == UNION {DOMAIN ds[i] : i \in 1..Len(ds)} IN
    [columns |-> cols,
     rows |-> [i \in 1..Len(ds) |->
                  [c \in cols |-> IF c \in DOMAIN ds[i] THEN ds[i][c] ELSE RawNull]]]

\* with_columns([...]) of lines 104-110 names these columns: it raises
\* ColumnNotFoundError when the frame lacks one of them.
ColumnsFound(frame) == PROJECTION \subseteq frame.columns

CastRow(r) ==
    [last_scraped |-> ParseDate(r["last_scraped"]),
     availability_30 |-> CastInt64(r["availability_30"]),
     number_of_reviews |-> CastInt64(r["number_of_reviews"]),
     host_is_superhost |-> CastUtf8Str(r["host_is_superhost"]),
     room_type |-> CastUtf8Str(r["room_type"]),
     neighbourhood_cleansed |-> CastUtf8Text(r["neighbourhood_cleansed"])]

NotNull(r) ==
    /\ r.last_scraped # {}
    /\ r.room_type # {}
    /\ r.availability_30 # {}
    /\ r.neighbourhood_cleansed # {}

\* Lines 104-111: the casts, then drop_nulls on the four mandatory columns
Typage(rows) ==
    LET cast == [i \in 1..Len(rows) |-> CastRow(rows[i])] IN SelectSeq(cast, NotNull)

\* Lines 120-127: translation of room_type, unknown values pass through
\* (the labels are written here without their accents)
type_logement(room_type) ==
    IF room_type = "Entire home/apt" THEN "Logement entier"
    ELSE IF room_type = "Private room" THEN "Chambre privee"
    ELSE IF room_type = "Shared room" THEN "Chambre partagee"
    ELSE IF room_type = "Hotel room" THEN "Chambre d'hotel"
    ELSE room_type

\* Lines 114-127: taux_reservation_30j, mois, type_logement; room_type dropped
EnrichRow(r) ==
    [last_scraped |-> r.last_scraped,
     availability_30 |-> r.availability_30,
     number_of_reviews |-> r.number_of_reviews,
     host_is_superhost |-> r.host_is_superhost,
     neighbourhood_cleansed |-> r.neighbourhood_cleansed,
     taux_reservation_30j |-> Rat(30 - Val(r.availability_30), 30),
     mois |-> StrftimeYm(Val(r.last_scraped)),
     type_logement |-> type_logement(Val(r.room_type))]

Enrichir(rows) == [i \in 1..Len(rows) |-> EnrichRow(rows[i])]

\* ------------------------------------------------------------------------
\* Aggregations
\* ------------------------------------------------------------------------
RECURSIVE RatSum(_)
RatSum(vals) ==
    IF Len(vals) = 0 THEN <<0, 1>> ELSE RatAdd(vals[1], RatSum(Tail(vals)))

\* Expr.mean() of a non-empty group
Mean(vals) == LET s == RatSum(vals) IN Rat(s[1], s[2] * Len(vals))

KthSmallest(vals, k) ==
    CHOOSE v \in Range(vals) :
        /\ Cardinality({i \in 1..Len(vals) : vals[i] < v}) < k
        /\ k <= Cardinality({i \in 1..Len(vals) : vals[i] <= v})

\* Expr.median(): nulls are skipped, null when nothing is left
Median(opts) ==
    LET present(o) == o # {}
        some == SelectSeq(opts, present)
        vals == [i \in 1..Len(some) |-> Val(some[i])]
        n == Len(vals)
    IN IF n = 0 THEN {}
       ELSE IF n % 2 = 1 THEN {Rat(KthSmallest(vals, (n + 1) \div 2), 1)}
       ELSE {Rat(KthSmallest(vals, n \div 2) + KthSmallest(vals, (n \div 2) + 1), 2)}

Taux(rows) == [i \in 1..Len(rows) |-> rows[i].taux_reservation_30j]

Avis(rows) == [i \in 1..Len(rows) |-> rows[i].number_of_reviews]

\* Lines 130-134.  The rows are sorted on the whole group key, so the set of
\* rows determines the file.
Rapport1(rows) ==
    {[mois |-> k[1], type_logement |-> k[2],
      taux_reservation_moyen |->
          LET InGroup(r) == r.mois = k[1] /\ r.type_logement = k[2]
          IN Mean(Taux(SelectSeq(rows, InGroup)))] :
        k \in {<<r.mois, r.type_logement>> : r \in Range(rows)}}

\* Lines 138-141: one row, whatever the frame
Rapport2(rows) == {[mediane_nombre_avis |-> Median(Avis(rows))]}

categorie_hote(r) ==
    IF r.host_is_superhost = {"t"} THEN "Superhote" ELSE "Non superhote"

\* Lines 144-154
Rapport3(rows) ==
    {[categorie_hote |-> c,
      mediane_nombre_avis |->
          LET InGroup(r) == categorie_hote(r) = c
          IN Median(Avis(SelectSeq(rows, InGroup)))] :
        c \in {categorie_hote(r) : r \in Range(rows)}}

\* Lines 158-163.  Rows of equal nombre_annonces come in no specified order:
\* the file is kept as its set of rows.
Rapport4(rows) ==
    {[quartier |-> Val(q),
      nombre_annonces |->
          Cardinality({i \in 1..Len(rows) : rows[i].neighbourhood_cleansed = q})] :
        q \in {r.neighbourhood_cleansed : r \in Range(rows)}}

\* Lines 168-169
MoyenneParMoisQuartier(rows) ==
    {[mois |-> k[1], quartier |-> Val(k[2]),
      taux_reservation_moyen |->
          LET InGroup(r) == r.mois = k[1] /\ r.neighbourhood_cleansed = k[2]
          IN Mean(Taux(SelectSeq(rows, InGroup)))] :
        k \in {<<r.mois, r.neighbourhood_cleansed>> : r \in Range(rows)}}

\* Variant: rank(method="min"), one more than the number of larger rows
MinRankDesc(v, partition) ==
    Cardinality({b \in partition : RatLess(v, b.taux_reservation_moyen)}) + 1

\* rank(method="dense", descending=True) of the value v in its partition (a
\* set of aggregated rows): one more than the number of distinct larger values
DenseRankDesc(v, partition) ==
    Cardinality({w \in {b.taux_reservation_moyen : b \in partition} : RatLess(v, w)}) + 1

\* Lines 170-175: .rank(method="dense", descending=True).over("mois")
Classer(agg) ==
    {[mois |-> a.mois, quartier |-> a.quartier,
      taux_reservation_moyen |-> a.taux_reservation_moyen,
      rang |-> DenseRankDesc(a.taux_reservation_moyen, {b \in agg : b.mois = a.mois})] :
        a \in agg}

\* Variant: the cut-off taken one rank too far
FiltrerTopPlusUn(ranked, n) == {r \in ranked : r.rang <= n + 1}

\* Line 176: .filter(pl.col("rang") <= TOP_N)
FiltrerTop(ranked, n) == {r \in ranked : r.rang <= n}

\* Lines 167-179.  Rows of equal (mois, rang) come in no specified order.
Rapport5(rows, n) == FiltrerTop(Classer(MoyenneParMoisQuartier(rows)), n)

\* ------------------------------------------------------------------------
\* Connection target, exits, output directory
\* ------------------------------------------------------------------------
\* die(msg, code=1): the exit status of the process
die(msg) == [code |-> 1, stderr |-> msg]

\* Variant: build_mongo_uri() without the check of incomplete credentials
build_mongo_uri_sans_controle(mongo_uri, user, pass) ==
    IF mongo_uri # "" THEN [ok |-> TRUE, uri |-> <<mongo_uri>>]
    ELSE IF user = "" /\ pass = "" THEN [ok |-> TRUE, uri |-> <<"mongodb://", "host:port">>]
    ELSE [ok |-> TRUE, uri |-> <<"mongodb://", user, ":", pass, "@", "host:port", "/?authSource=">>]

\* build_mongo_uri(): the URI, or the die() of incomplete credentials.
\* "" is an unset (or blank) environment variable.
build_mongo_uri(mongo_uri, user, pass) ==
    IF mongo_uri # "" THEN [ok |-> TRUE, uri |-> <<mongo_uri>>]
    ELSE IF user = "" /\ pass = "" THEN [ok |-> TRUE, uri |-> <<"mongodb://", "host:port">>]
    ELSE IF user = "" \/ pass = "" THEN [ok |-> FALSE, uri |-> <<>>]
    ELSE [ok |-> TRUE, uri |-> <<"mongodb://", user, ":", pass, "@", "host:port", "/?authSource=">>]

\* Variant: except Exception: pass
except_pass(raised) == "continue"

\* Lines 87-91: what the except clause of the connection block does with an
\* exception of MongoClient(...) or of the ping
except_connexion(raised) == IF raised THEN "die" ELSE "continue"

\* Variant: the emptiness check left out
aucun_document_ignore(ds) == FALSE /\ Len(ds) = 0

\* Line 98: if not docs
aucun_document(ds) == Len(ds) = 0

\* A file name is <<stem, extension>>
F1 == <<"01_taux_reservation_moyen_par_mois_et_type_logement", "csv">>
F2 == <<"02_mediane_nombre_avis_tous_logements", "csv">>
F3 == <<"03_mediane_nombre_avis_par_categorie_hote", "csv">>
F4 == <<"04_densite_logements_par_quartier", "csv">>
F5 == <<"05_top_quartiers_taux_reservation_par_mois", "csv">>
Rapports == {F1, F2, F3, F4, F5}

\* Files that a run may find in OUTDIR without having written them
AncienCsv == <<"export_2023", "csv">>
Notes == <<"notes", "txt">>
FileNames == Rapports \cup {AncienCsv, Notes}

\* The content of a file is the sequence of the tables written into it; a
\* file that exists holds {content}, a file that does not holds {}
Ancien == <<{[ancien |-> TRUE]}>>

EstCsv(f) == f[2] = "csv"

\* p.glob("*.csv")
Glob(dir) == {f \in DOMAIN dir : dir[f] # {} /\ f[2] = "csv"}

\* Variant: only the report files are deleted
nettoyer_rapports(exists, dir, failed) ==
    IF ~exists THEN dir
    ELSE [f \in DOMAIN dir |->
            IF f \in Glob(dir) /\ f \in Rapports /\ f \notin failed THEN {} ELSE dir[f]]

\* Variant: the test of p.exists() inverted
nettoyer_si_absent(exists, dir, failed) ==
    IF exists THEN dir
    ELSE [f \in DOMAIN dir |-> IF f \in Glob(dir) /\ f \notin failed THEN {} ELSE dir[f]]

\* nettoyer_outputs(outdir), `failed` being the files whose unlink() raises
nettoyer_outputs(exists, dir, failed) ==
    IF ~exists THEN dir
    ELSE [f \in DOMAIN dir |-> IF f \in Glob(dir) /\ f \notin failed THEN {} ELSE dir[f]]

\* Variant: the table is appended to a file that exists
write_csv_append(dir, f, table) ==
    [dir EXCEPT ![f] = IF @ = {} THEN {<<table>>} ELSE {Append(Val(@), table)}]

\* DataFrame.write_csv(path): creates the file or replaces its content
write_csv(dir, f, table) == [dir EXCEPT ![f] = {<<table>>}]

\* ------------------------------------------------------------------------
\* Documents of the collection
\* ------------------------------------------------------------------------
T_jan == RawText(<<"2", "0", "2", "4", "-", "0", "1", "-", "1", "5">>)
T_fev == RawText(<<"2", "0", "2", "4", "-", "0", "2", "-", "1", "0">>)
T_nd == RawText(<<"n", "/", "a">>)
Q_bercy == RawText(<<"B", "e", "r", "c", "y">>)
Q_odeon == RawText(<<"O", "d", "e", "o", "n">>)
Q_code == RawText(<<"7", "5", "0">>)

Doc(ls, rt, av, nr, sh, nb) ==
    [c \in PROJECTION |->
        CASE c = "last_scraped" -> ls
          [] c = "room_type" -> rt
          [] c = "availability_30" -> av
          [] c = "number_of_reviews" -> nr
          [] c = "host_is_superhost" -> sh
          [] c = "neighbourhood_cleansed" -> nb]

Sans(doc, keys) == [c \in (DOMAIN doc) \ keys |-> doc[c]]

DocBercy == Doc(T_jan, RawStr("Private room"), RawInt(10), RawInt(4), RawStr("t"), Q_bercy)
DocOdeon == Doc(T_jan, RawStr("Entire home/apt"), RawInt(10), RawInt(7), RawStr("f"), Q_odeon)
DocBercy20 == Doc(T_jan, RawStr("Private room"), RawText(<<"2", "0">>), RawNull, RawNull, Q_bercy)
DocFevrier == Doc(T_fev, RawStr("Loft"), RawInt(0), RawInt(2), RawStr("f"), Q_odeon)
Doc35 == Doc(T_jan, RawStr("Private room"), RawInt(35), RawInt(1), RawStr("t"), Q_bercy)
DocCode == Doc(T_jan, RawStr("Private room"), RawInt(20), RawInt(3), RawStr("f"), Q_code)
DocSansDate == Doc(T_nd, RawStr("Private room"), RawInt(5), RawInt(9), RawStr("f"), Q_odeon)
DocSansQuartier == Sans(Doc(T_jan, RawStr("Hotel room"), RawNull, RawInt(6), RawStr("t"), RawNull),
                        {"neighbourhood_cleansed"})

DocPool ==
    {DocBercy, DocOdeon, DocBercy20, DocFevrier, Doc35, DocCode, DocSansDate, DocSansQuartier}

CtlPool == {DocBercy, DocSansDate, DocSansQuartier}

Collections(pool, n) == UNION {[1..k -> pool] : k \in 0..n}

\* ------------------------------------------------------------------------
\* State
\* ------------------------------------------------------------------------
VARIABLES
    MONGO_URI, MONGO_USER, MONGO_PASS,  \* environment, "" when unset
    NETTOYER_OUTPUTS, TOP_N,
    source,          \* the documents of P7MLO.listings
    outdir_exists,   \* OUTDIR is a directory
    outdir,          \* the files of OUTDIR
    pc,              \* position of the run in main()
    run,             \* 1 for the first run of the job, 2 for the second
    exit_code,       \* {} while the run is going, {status} once it has exited
    uri, docs, df,   \* locals of main()
    log,             \* network calls and writes of this run, in order
    before,          \* OUTDIR as this run found it
    failed,          \* files whose unlink() raised in this run
    premier          \* {} during the first run, then {how the first run ended}

config == <<MONGO_URI, MONGO_USER, MONGO_PASS, NETTOYER_OUTPUTS, TOP_N, source>>
vars == <<config, outdir_exists, outdir, pc, run, exit_code, uri, docs, df, log,
          before, failed, premier>>

Ev(op, f, raised) == [op |-> op, file |-> f, raised |-> raised]

EmptyFrame == [columns |-> {}, rows |-> <<>>]

NoFiles == [f \in FileNames |-> {}]

InitRun ==
    /\ pc = "start"
    /\ run = 1
    /\ exit_code = {}
    /\ uri = {}
    /\ docs = <<>>
    /\ df = EmptyFrame
    /\ log = <<>>
    /\ before = outdir
    /\ failed = {}
    /\ premier = {}

InitOutdir ==
    /\ outdir_exists \in BOOLEAN
    /\ outdir \in [FileNames -> {{}, {Ancien}}]
    /\ outdir_exists = FALSE => outdir = NoFiles
    /\ \A f \in Rapports \ {F5} : outdir[f] = {}

Init ==
    /\ MONGO_URI \in {"", "mongodb://srv/"}
    /\ MONGO_USER \in {"", "user"}
    /\ MONGO_PASS \in {"", "secret"}
    /\ NETTOYER_OUTPUTS \in BOOLEAN
    /\ TOP_N \in 1..MaxTopN
    /\ source \in Collections(CtlPool, MaxCtlDocs)
    /\ InitOutdir
    /\ InitRun

\* ------------------------------------------------------------------------
\* Steps of main()
\* ------------------------------------------------------------------------
Exit(code) ==
    /\ pc' = "exited"
    /\ exit_code' = {code}

\* Lines 78-82 with the flag set: makedirs, then nettoyer_outputs(OUTDIR)
DebutAvecNettoyage ==
    /\ pc = "start"
    /\ NETTOYER_OUTPUTS
    /\ \E raised \in SUBSET Glob(outdir) :
        /\ Cardinality(raised) <= MaxUnlinkFailures
        /\ failed' = raised
        /\ outdir' = nettoyer_outputs(TRUE, outdir, raised)
    /\ outdir_exists' = TRUE
    /\ pc' = "build_uri"
    /\ UNCHANGED <<config, run, exit_code, uri, docs, df, log, before, premier>>

\* Lines 78-82 with the flag unset
DebutSansNettoyage ==
    /\ pc = "start"
    /\ ~NETTOYER_OUTPUTS
    /\ outdir_exists' = TRUE
    /\ pc' = "build_uri"
    /\ UNCHANGED <<config, outdir, run, exit_code, uri, docs, df, log, before, failed, premier>>

\* Line 84, build_mongo_uri() returns
BuildUri ==
    /\ pc = "build_uri"
    /\ LET r == build_mongo_uri(MONGO_URI, MONGO_USER, MONGO_PASS) IN
        /\ r.ok
        /\ uri' = {r.uri}
    /\ pc' = "connect"
    /\ UNCHANGED <<config, outdir_exists, outdir, run, exit_code, docs, df, log, before,
                   failed, premier>>

\* Line 84, build_mongo_uri() dies on incomplete credentials
BuildUriDie ==
    /\ pc = "build_uri"
    /\ ~build_mongo_uri(MONGO_URI, MONGO_USER, MONGO_PASS).ok
    /\ Exit(die("identifiants incomplets").code)
    /\ UNCHANGED <<config, outdir_exists, outdir, run, uri, docs, df, log, before, failed,
                   premier>>

\* Line 88: MongoClient(uri, serverSelectionTimeoutMS=5000) returns or raises
Connect ==
    /\ pc = "connect"
    /\ \E raised \in BOOLEAN :
        /\ log' = Append(log, Ev("MongoClient", <<>>, raised))
        /\ IF except_connexion(raised) = "die"
           THEN Exit(die("ping KO").code)
           ELSE pc' = "ping" /\ UNCHANGED exit_code
    /\ UNCHANGED <<config, outdir_exists, outdir, run, uri, docs, df, before, failed, premier>>

\* Line 89: client.admin.command("ping") returns or raises
Ping ==
    /\ pc = "ping"
    /\ \E raised \in BOOLEAN :
        /\ log' = Append(log, Ev("ping", <<>>, raised))
        /\ IF except_connexion(raised) = "die"
           THEN Exit(die("ping KO").code)
           ELSE pc' = "find" /\ UNCHANGED exit_code
    /\ UNCHANGED <<config, outdir_exists, outdir, run, uri, docs, df, before, failed, premier>>

\* Lines 97-99: list(coll.find({}, PROJECTION)), then the emptiness check
Find ==
    /\ pc = "find"
    /\ log' = Append(log, Ev("find", <<>>, FALSE))
    /\ docs' = source
    /\ IF aucun_document(source)
       THEN Exit(die("Aucun document").code)
       ELSE pc' = "from_dicts" /\ UNCHANGED exit_code
    /\ UNCHANGED <<config, outdir_exists, outdir, run, uri, df, before, failed, premier>>

\* Line 101
FromDicts ==
    /\ pc = "from_dicts"
    /\ df' = from_dicts(docs)
    /\ pc' = "typage"
    /\ UNCHANGED <<config, outdir_exists, outdir, run, exit_code, uri, docs, log, before,
                   failed, premier>>

\* Lines 104-111
TypageNettoyage ==
    /\ pc = "typage"
    /\ ColumnsFound(df)
    /\ df' = [columns |-> df.columns, rows |-> Typage(df.rows)]
    /\ pc' = "enrichir"
    /\ UNCHANGED <<config, outdir_exists, outdir, run, exit_code, uri, docs, log, before,
                   failed, premier>>

\* Line 104 on a frame that lacks a column: ColumnNotFoundError is caught
\* nowhere, the interpreter prints the traceback and exits with status 1
TypageErreur ==
    /\ pc = "typage"
    /\ ~ColumnsFound(df)
    /\ Exit(1)
    /\ UNCHANGED <<config, outdir_exists, outdir, run, uri, docs, df, log, before, failed,
                   premier>>

\* Lines 114-127
Enrichissement ==
    /\ pc = "enrichir"
    /\ df' = [columns |-> (df.columns \ {"room_type"})
                           \cup {"taux_reservation_30j", "mois", "type_logement"},
              rows |-> Enrichir(df.rows)]
    /\ pc' = "t1"
    /\ UNCHANGED <<config, outdir_exists, outdir, run, exit_code, uri, docs, log, before,
                   failed, premier>>

Ecrire(at, f, table, next) ==
    /\ pc = at
    /\ outdir' = write_csv(outdir, f, table)
    /\ log' = Append(log, Ev("write_csv", f, FALSE))
    /\ pc' = next
    /\ UNCHANGED <<config, outdir_exists, run, exit_code, uri, docs, df, before, failed,
                   premier>>

\* Lines 130-135
Ecrire1 == Ecrire("t1", F1, Rapport1(df.rows), "t2")

\* Lines 138-141
Ecrire2 == Ecrire("t2", F2, Rapport2(df.rows), "t3")

\* Lines 144-155
Ecrire3 == Ecrire("t3", F3, Rapport3(df.rows), "t4")

\* Lines 158-164
Ecrire4 == Ecrire("t4", F4, Rapport4(df.rows), "t5")

\* Lines 167-180
Ecrire5 == Ecrire("t5", F5, Rapport5(df.rows, TOP_N), "fin")

\* Lines 182-184: main() returns, the process exits with status 0
Fin ==
    /\ pc = "fin"
    /\ Exit(0)
    /\ UNCHANGED <<config, outdir_exists, outdir, run, uri, docs, df, log, before, failed,
                   premier>>

\* Lines 187-188: the job is started a second time, same environment, same
\* collection, same OUTDIR
Relance ==
    /\ pc = "exited"
    /\ run = 1
    /\ premier' = {[exit_code |-> Val(exit_code), outdir |-> outdir, failed |-> failed]}
    /\ run' = 2
    /\ pc' = "start"
    /\ exit_code' = {}
    /\ uri' = {}
    /\ docs' = <<>>
    /\ df' = EmptyFrame
    /\ log' = <<>>
    /\ before' = outdir
    /\ failed' = {}
    /\ UNCHANGED <<config, outdir_exists, outdir>>

Next ==
    \/ DebutAvecNettoyage
    \/ DebutSansNettoyage
    \/ BuildUri
    \/ BuildUriDie
    \/ Connect
    \/ Ping
    \/ Find
    \/ FromDicts
    \/ TypageNettoyage
    \/ TypageErreur
    \/ Enrichissement
    \/ Ecrire1
    \/ Ecrire2
    \/ Ecrire3
    \/ Ecrire4
    \/ Ecrire5
    \/ Fin
    \/ Relance

Spec == Init /\ [][Next]_vars

\* ------------------------------------------------------------------------
\* The same job on richer collections: credentials complete, server
\* reachable or not, flag unset, OUTDIR empty, one run
\* ------------------------------------------------------------------------
InitData ==
    /\ MONGO_URI = "mongodb://srv/"
    /\ MONGO_USER = ""
    /\ MONGO_PASS = ""
    /\ NETTOYER_OUTPUTS = FALSE
    /\ TOP_N \in 1..MaxTopN
    /\ source \in Collections(DocPool, MaxDocs)
    /\ outdir_exists = TRUE
    /\ outdir = NoFiles
    /\ InitRun

NextData ==
    \/ DebutSansNettoyage
    \/ BuildUri
    \/ Connect
    \/ Ping
    \/ Find
    \/ FromDicts
    \/ TypageNettoyage
    \/ TypageErreur
    \/ Enrichissement
    \/ Ecrire1
    \/ Ecrire2
    \/ Ecrire3
    \/ Ecrire4
    \/ Ecrire5
    \/ Fin

SpecData == InitData /\ [][NextData]_vars

\* ------------------------------------------------------------------------
\* Properties
\* ------------------------------------------------------------------------
Calls(op) == {i \in 1..Len(log) : log[i].op = op}

Written(f) == \E i \in Calls("write_csv") : log[i].file = f

\* The files written by this run, in the order of the writes
WrittenFiles ==
    LET IsWrite(e) == e.op = "write_csv"
        writes == SelectSeq(log, IsWrite)
    IN [i \in 1..Len(writes) |-> writes[i].file]

Fatal == pc = "exited" /\ exit_code # {0}

Success == pc = "exited" /\ exit_code = {0}

IncompleteCredentials == MONGO_URI = "" /\ ((MONGO_USER = "") # (MONGO_PASS = ""))

Cleaned == pc \in {"enrichir", "t1", "t2", "t3", "t4", "t5", "fin"} \/ Success

Enriched == pc \in {"t1", "t2", "t3", "t4", "t5", "fin"} \/ Success

ValidName(cs) == Len(cs) > 2 /\ ~AllDigits(cs) /\ cs[1] # "["

\* The table of report 5 as this run wrote it
T5 == Val(outdir[F5])[1]

MoisDe(rows) == {r.mois : r \in rows}

\* C1: every record that survives the cleaning step has availability_30 in
\* 0..30, a booking rate in [0, 1] and a neighbourhood name longer than 2
\* characters, not all digits and not starting with "[".
C1_CleanedRecordsInRange ==
    Cleaned =>
        \A i \in 1..Len(df.rows) :
            /\ Val(df.rows[i].availability_30) \in 0..30
            /\ ValidName(Val(df.rows[i].neighbourhood_cleansed))
            /\ Enriched =>
                /\ RatLeq(<<0, 1>>, df.rows[i].taux_reservation_30j)
                /\ RatLeq(df.rows[i].taux_reservation_30j, <<1, 1>>)

\* C2: with no MONGO_URI and exactly one of MONGO_USER / MONGO_PASS set, the
\* run makes no network call and writes no report, and it can only end by
\* the fatal exit of build_mongo_uri().
C2_IncompleteCredentialsNoNetwork ==
    IncompleteCredentials =>
        /\ log = <<>>
        /\ pc \in {"start", "build_uri", "exited"}
        /\ pc = "exited" => exit_code = {1}
        /\ pc = "build_uri" => ENABLED BuildUriDie /\ ~ENABLED BuildUri
        /\ \A f \in Rapports : outdir[f] = {} \/ outdir[f] = before[f]

C2_Witness ==
    /\ IncompleteCredentials
    /\ MONGO_USER # ""
    /\ Fatal
    /\ ~NETTOYER_OUTPUTS
    /\ before[F5] # {}

\* C3: when the connection succeeds and the query returns no document, the
\* run exits at once with a non-zero status and has written no report file.
C3_EmptyFetchFatalNoCsv ==
    (Calls("find") # {} /\ Len(source) = 0) =>
        /\ Fatal
        /\ Calls("write_csv") = {}
        /\ \A f \in Rapports : outdir[f] = {} \/ outdir[f] = before[f]

C3_Witness ==
    /\ Calls("find") # {}
    /\ Len(source) = 0
    /\ Fatal
    /\ before[F5] # {}
    /\ outdir[F5] # {}

\* C4 as stated: every run that has ended has pinged exactly once.
C4_PingExactlyOnceEveryRun ==
    pc = "exited" => Cardinality(Calls("ping")) = 1

\* C4, amended: a run connects, pings and queries at most once each, in that
\* order; it pings exactly once if MongoClient(...) returned; a call that
\* raises is the last call of the run, which then exits with a non-zero
\* status having issued no query and written no report.
C4_PingOnceBeforeFindNoRetry ==
    /\ Cardinality(Calls("MongoClient")) <= 1
    /\ Cardinality(Calls("ping")) <= 1
    /\ Cardinality(Calls("find")) <= 1
    /\ \A i \in Calls("find") :
        /\ i = 3
        /\ log[1].op = "MongoClient" /\ ~log[1].raised
        /\ log[2].op = "ping" /\ ~log[2].raised
    /\ \A i \in Calls("MongoClient") : ~log[i].raised => (pc = "ping" \/ Calls("ping") # {})
    /\ \A i \in Calls("ping") : i = 2 /\ log[1].op = "MongoClient"
    /\ \A i \in 1..Len(log) :
        log[i].raised =>
            /\ i = Len(log)
            /\ Fatal
            /\ Calls("find") = {}
            /\ Calls("write_csv") = {}
            /\ \A f \in Rapports : outdir[f] = {} \/ outdir[f] = before[f]

C4_Witness ==
    /\ Fatal
    /\ Len(log) = 2
    /\ log[2].op = "ping"
    /\ log[2].raised
    /\ Len(source) > 0

\* C5 as stated: report 5 keeps at most TOP_N neighbourhoods per month.
C5_AtMostTopNNeighbourhoods ==
    Written(F5) =>
        \A m \in MoisDe(T5) : Cardinality({r \in T5 : r.mois = m}) <= TOP_N

\* C5, amended: per month, report 5 keeps at most TOP_N distinct mean booking
\* rates (hence at most TOP_N neighbourhoods when no two kept neighbourhoods
\* of the month have the same mean); neighbourhoods of equal mean are kept
\* or dropped together, so ties may bring the count above TOP_N.
C5_AtMostTopNDistinctMeans ==
    Written(F5) =>
        \A m \in MoisDe(T5) :
            LET kept == {r \in T5 : r.mois = m}
                all == {a \in MoyenneParMoisQuartier(df.rows) : a.mois = m}
            IN /\ Cardinality({r.taux_reservation_moyen : r \in kept}) <= TOP_N
               /\ \A a \in all :
                    (\E r \in kept : r.taux_reservation_moyen = a.taux_reservation_moyen)
                        => \E r \in kept : r.quartier = a.quartier

C5_Witness ==
    /\ Written(F5)
    /\ TOP_N = 1
    /\ \E m \in MoisDe(T5) : Cardinality({r \in T5 : r.mois = m}) = 2

\* C8: in report 5 the rank is a dense rank of the mean booking rate,
\* descending, within each month: equal means have equal ranks, a lower mean
\* has a larger rank, the ranks kept for a month are exactly 1..k with
\* k = min(TOP_N, number of distinct means of the month), and every month of
\* the cleaned records has a row of rank 1.
C8_DenseRankPerMonth ==
    Written(F5) =>
        /\ MoisDe(Range(df.rows)) = MoisDe(T5)
        /\ \A m \in MoisDe(Range(df.rows)) :
            LET kept == {r \in T5 : r.mois = m}
                means == {a.taux_reservation_moyen :
                             a \in {b \in MoyenneParMoisQuartier(df.rows) : b.mois = m}}
            IN /\ {r.rang : r \in kept} = 1..Min(TOP_N, Cardinality(means))
               /\ \E r \in kept : r.rang = 1
               /\ \A r1, r2 \in kept :
                    /\ (r1.rang = r2.rang) <=>
                            (r1.taux_reservation_moyen = r2.taux_reservation_moyen)
                    /\ RatLess(r1.taux_reservation_moyen, r2.taux_reservation_moyen)
                            => r1.rang > r2.rang

C8_Witness ==
    /\ Written(F5)
    /\ TOP_N = 2
    /\ \E r1, r2, r3 \in T5 :
        /\ r1.mois = r2.mois /\ r2.mois = r3.mois
        /\ r1.quartier # r2.quartier
        /\ r1.rang = 1 /\ r2.rang = 1 /\ r3.rang = 2
    /\ Cardinality(MoisDe(T5)) = 1

CsvOf(dir) == [f \in {g \in DOMAIN dir : EstCsv(g)} |-> dir[f]]

BothRunsSucceeded ==
    /\ run = 2
    /\ Success
    /\ premier # {}
    /\ Val(premier).exit_code = 0

\* C6 as stated: two successful runs in sequence with the cleanup flag set
\* leave the same CSV files with the same contents.
C6_TwiceSameOutputs ==
    (NETTOYER_OUTPUTS /\ BothRunsSucceeded) => CsvOf(outdir) = CsvOf(Val(premier).outdir)

\* C6, amended: two successful runs in sequence with the cleanup flag set
\* leave the five report files with the same contents, and the same set of
\* CSV files provided no unlink() raised during the first run (a CSV file
\* that the first run failed to delete may be deleted by the second).
C6_TwiceSameReports ==
    (NETTOYER_OUTPUTS /\ BothRunsSucceeded) =>
        /\ \A f \in Rapports : outdir[f] # {} /\ outdir[f] = Val(premier).outdir[f]
        /\ Val(premier).failed = {} => CsvOf(outdir) = CsvOf(Val(premier).outdir)

C6_Witness ==
    /\ NETTOYER_OUTPUTS
    /\ BothRunsSucceeded
    /\ Val(premier).failed = {}
    /\ failed = {F1}
    /\ Val(outdir[F5])[1] # {}

\* C7: with the flag set, every CSV file found in OUTDIR is deleted before
\* the first report is written unless its own unlink() raised, and a raising
\* unlink() does not end the run; with the flag unset no file found in OUTDIR
\* is deleted; a file that is not a CSV file is never touched; after a
\* successful run with the flag set and no raising unlink(), the CSV files
\* of OUTDIR are exactly the five reports.
C7_CleanupBeforeWrites ==
    /\ (NETTOYER_OUTPUTS /\ pc # "start") =>
        /\ \A f \in FileNames :
            (EstCsv(f) /\ before[f] # {} /\ f \notin failed /\ ~Written(f)) => outdir[f] = {}
        /\ \A f \in failed : EstCsv(f) /\ before[f] # {}
        /\ \A f \in failed : ~Written(f) => outdir[f] = before[f]
        /\ (failed # {} /\ pc = "exited" /\ log = <<>>) => IncompleteCredentials
    /\ ~NETTOYER_OUTPUTS =>
        /\ failed = {}
        /\ \A f \in FileNames : before[f] # {} => outdir[f] # {}
        /\ \A f \in FileNames : ~Written(f) => outdir[f] = before[f]
    /\ outdir[Notes] = before[Notes]
    /\ (NETTOYER_OUTPUTS /\ Success /\ failed = {}) =>
        {f \in FileNames : EstCsv(f) /\ outdir[f] # {}} = Rapports

C7_Witness ==
    /\ NETTOYER_OUTPUTS
    /\ run = 1
    /\ pc = "t1"
    /\ before[AncienCsv] # {}
    /\ before[F5] # {}
    /\ failed = {F5}
    /\ outdir[AncienCsv] = {}
    /\ outdir[F5] = before[F5]

\* C9: once the connection has succeeded and the query has returned at least
\* one document, the run writes the five reports in the order 1 to 5 and
\* exits with status 0.
C9_DataQualityNeverFatal ==
    (pc = "exited" /\ Calls("find") # {} /\ Len(docs) > 0) =>
        /\ exit_code = {0}
        /\ WrittenFiles = <<F1, F2, F3, F4, F5>>

\* C10: the cleanup comes before the connection target is resolved, so a run
\* with the flag set that ends in a fatal error leaves no CSV file in OUTDIR
\* when no unlink() raised; a fatal run with the flag unset leaves OUTDIR as
\* it found it.
C10_FatalRunAfterCleanup ==
    /\ (NETTOYER_OUTPUTS /\ pc \in {"build_uri", "connect", "ping", "find"}) =>
        /\ log = <<>> \/ pc # "build_uri"
        /\ \A f \in FileNames : (EstCsv(f) /\ f \notin failed) => outdir[f] = {}
    /\ (NETTOYER_OUTPUTS /\ Fatal /\ failed = {}) =>
        \A f \in FileNames : EstCsv(f) => outdir[f] = {}
    /\ (~NETTOYER_OUTPUTS /\ Fatal) => outdir = before

C10_Witness ==
    /\ NETTOYER_OUTPUTS
    /\ Fatal
    /\ failed = {}
    /\ before[F5] # {}
    /\ before[AncienCsv] # {}
    /\ Len(log) = 3
    /\ outdir[F5] = {}

====
